---- MODULE Spec2Model ----
(***************************************************************************)
(* Model of python/googleapis/drive/googledriveoperations.py: one run of   *)
(* main() against a Drive service whose answers are chosen by the          *)
(* environment.  Every call of ...execute() / next_chunk() is one request; *)
(* the service either raises HttpError or returns a response dictionary.   *)
(***************************************************************************)
EXTENDS Integers, Sequences, FiniteSets, TLC

VARIABLES
    pc,              \* position of main(): which call site runs next
    option,          \* main: option
    parent_folder,   \* main: folder (option 1) / parent_folder (options 3, 4, 6)
    new_name,        \* main: new_name (option 6)
    parent_id,       \* value returned by find_folder (parent_id / parent_folder_id)
    file_id,         \* value returned by find_file
    children_files,  \* find_files_in_folder: children_files
    page_token,      \* find_files_in_folder: page_token
    files,           \* main: value returned by find_files_in_folder (kind "unset" before)
    requests,        \* every request sent to the service, in order
    response,        \* the outcome of the last request (results / the raised error)
    pages,           \* the responses the service gave to the listing loop, in order
    out              \* what was printed

vars == << pc, option, parent_folder, new_name, parent_id, file_id,
           children_files, page_token, files, requests, response, pages, out >>

-----------------------------------------------------------------------------
(* Bounds of the exploration *)

\* the listing loop is explored up to this many page requests
MaxPages == 3
\* the service holds at most this many entries for one query
MaxFiles == 3
\* a download is explored up to this many chunks
MaxChunks == 2

-----------------------------------------------------------------------------
(* Values *)

\* Python's None
None == "None"

\* pageSize=10 of the listing loop and of the two lookups
PageSize == 10
LookupPageSize == 10

Fields == "nextPageToken, files(id, name)"

\* type of a folder in Drive
FolderMime == "application/vnd.google-apps.folder"

\* entries the service can hold: two files with the same name
Entries == { [id |-> "1", name |-> "x"], [id |-> "2", name |-> "x"] }

\* continuation tokens the service can hand out
Tokens == { "tok1", "tok2" }

\* what the user can type
Options == 1..7
FolderNames == { "", "docs" }
NewNames == { "", "copy" }
file_name == "x"
folder == "local"

RECURSIVE SeqsUpTo(_, _)
SeqsUpTo(S, n) ==
    IF n = 0 THEN { <<>> }
    ELSE LET shorter == SeqsUpTo(S, n - 1)
         IN  shorter \cup { Append(s, e) : s \in { t \in shorter : Len(t) = n - 1 }, e \in S }

\* the error a request raises
HttpError == [error |-> "HttpError"]

\* the dictionaries a files().list request can return with at most n entries:
\* 'files' and 'nextPageToken' are each present or not
ListResponses(n) ==
    LET pagesOf == SeqsUpTo(Entries, n)
    IN  { [files |-> p, nextPageToken |-> t] : p \in pagesOf, t \in Tokens }
        \cup { [files |-> p] : p \in pagesOf }
        \cup { [nextPageToken |-> t] : t \in Tokens }
        \cup { << >> }

\* dict.get(key, default)
Get(d, key, default) == IF key \in DOMAIN d THEN d[key] ELSE default

\* Python truthiness of an identifier or a typed string
Truthy(x) == x # None /\ x # ""

\* os.path.join(folder, file_name)
PathJoin(a, b) == << a, "/", b >>

-----------------------------------------------------------------------------
(* Requests *)

\* files().list(q=f'"{parent_id}" in parents', pageSize=10, fields=..., pageToken=page_token)
PageRequest(pid, token) ==
    [ method |-> "files.list", q |-> << "\"", pid, "\" in parents" >>,
      pageSize |-> PageSize, fields |-> Fields, pageToken |-> token ]

\* files().list(q=f"name = '{file_name}'", pageSize=10, fields=...)
FindFileRequest(name) ==
    [ method |-> "files.list", q |-> << "name = '", name, "'" >>,
      pageSize |-> LookupPageSize, fields |-> Fields ]

\* files().list(q=f"mimeType='application/vnd.google-apps.folder' and name = '{folder}'", ...)
FindFolderRequest(name) ==
    [ method |-> "files.list",
      q |-> << "mimeType='", FolderMime, "' and name = '", name, "'" >>,
      pageSize |-> LookupPageSize, fields |-> Fields ]

\* one next_chunk() of MediaIoBaseDownload over files().get_media(fileId=file_id)
ChunkRequest(fid) == [ method |-> "files.get_media", fileId |-> fid ]

\* file_metadata of upload_file
UploadMetadata(name, pid) ==
    IF Truthy(pid) THEN [name |-> name, parents |-> << pid >>] ELSE [name |-> name]

\* files().create(body=file_metadata, media_body=media, fields='id')
UploadRequest(dir, name, pid) ==
    [ method |-> "files.create", body |-> UploadMetadata(name, pid),
      media_body |-> PathJoin(dir, name), fields |-> "id" ]

\* file_metadata of create_folder
FolderMetadata(name, pid) ==
    IF Truthy(pid)
    THEN [name |-> name, mimeType |-> FolderMime, parents |-> << pid >>]
    ELSE [name |-> name, mimeType |-> FolderMime]

\* files().create(body=file_metadata, fields='id')
CreateFolderRequest(name, pid) ==
    [ method |-> "files.create", body |-> FolderMetadata(name, pid), fields |-> "id" ]

\* files().delete(fileId=file_id)
DeleteRequest(fid) == [ method |-> "files.delete", fileId |-> fid ]

\* file_metadata of copy_file
CopyMetadata(pid, name) ==
    IF Truthy(pid)
    THEN IF Truthy(name) THEN [parents |-> << pid >>, name |-> name] ELSE [parents |-> << pid >>]
    ELSE IF Truthy(name) THEN [name |-> name] ELSE << >>

\* files().copy(fileId=file_id, body=file_metadata, fields='id')
CopyRequest(fid, pid, name) ==
    [ method |-> "files.copy", fileId |-> fid, body |-> CopyMetadata(pid, name),
      fields |-> "id" ]

IsPageRequest(r) == r.method = "files.list" /\ "pageToken" \in DOMAIN r
IsLookupRequest(r) == r.method = "files.list" /\ "pageToken" \notin DOMAIN r

PageRequests == SelectSeq(requests, IsPageRequest)
LookupRequests == SelectSeq(requests, IsLookupRequest)
ChunkRequests == SelectSeq(requests, LAMBDA r : r.method = "files.get_media")

-----------------------------------------------------------------------------
(* The functions of the program *)

\* .execute(): the request goes out and its outcome comes back
Execute(req, resp) ==
    /\ requests' = Append(requests, req)
    /\ response' = resp

\* a variant in which a failed request comes back as an ordinary dictionary
Raises_Never(resp) == FALSE

\* .execute() raises HttpError for a failed request
Raises(resp) == resp = HttpError

\* a variant that reports the error and tries the same call again
Raise_Retry ==
    /\ pc' = pc
    /\ out' = Append(out, "An error occurred")

\* main: except HttpError as error: print(...)
Raise ==
    /\ pc' = "error"
    /\ out' = Append(out, "An error occurred")

\* a variant that takes the last entry of the page
FirstId_Last(results) ==
    LET items == Get(results, "files", << >>)
    IN  IF items = << >> THEN None ELSE items[Len(items)].id

\* a variant that falls back to the root folder
FirstId_Root(results) ==
    LET items == Get(results, "files", << >>)
    IN  IF items = << >> THEN "root" ELSE items[1].id

\* find_file / find_folder: the value returned for a response
FirstId(results) ==
    LET items == Get(results, "files", << >>)
    IN  IF items = << >> THEN None ELSE items[1].id

\* find_file / find_folder: what is printed for a response
NotFoundMessage(what, results) ==
    IF Get(results, "files", << >>) = << >> THEN << what \o " was not found." >> ELSE << >>

\* a variant that returns None for an empty list
ListResult_NoneIfEmpty(list) ==
    IF list = << >> THEN [kind |-> "None"] ELSE [kind |-> "list", value |-> list]

\* find_files_in_folder: return children_files
ListResult(list) == [kind |-> "list", value |-> list]

\* find_files_in_folder: the bare return when the folder was not found
NoResult == [kind |-> "None"]

Init ==
    /\ pc = "menu"
    /\ option = 0
    /\ parent_folder = ""
    /\ new_name = ""
    /\ parent_id = None
    /\ file_id = None
    /\ children_files = << >>
    /\ page_token = None
    /\ files = [kind |-> "unset"]
    /\ requests = << >>
    /\ response = << >>
    /\ pages = << >>
    /\ out = << >>

\* where main goes first for an option
FirstSite(opt, parent) ==
    CASE opt = 1 -> "list_find_folder"
      [] opt = 2 -> "download_find_file"
      [] opt = 3 -> IF Truthy(parent) THEN "upload_find_folder" ELSE "upload"
      [] opt = 4 -> IF Truthy(parent) THEN "create_find_folder" ELSE "create"
      [] opt = 5 -> "delete_find_file"
      [] opt = 6 -> IF Truthy(parent) THEN "copy_find_folder" ELSE "copy_find_file"
      [] OTHER -> "done"

\* main: the menu and the input() calls
SelectOption ==
    /\ pc = "menu"
    /\ \E opt \in Options, parent \in FolderNames, nn \in NewNames :
          /\ opt \in {1, 3, 4, 6} \/ parent = ""
          /\ opt = 6 \/ nn = ""
          /\ option' = opt
          /\ parent_folder' = parent
          /\ new_name' = nn
          /\ pc' = FirstSite(opt, parent)
    /\ out' = Append(out, "Operations")
    /\ UNCHANGED << parent_id, file_id, children_files, page_token, files,
                    requests, response, pages >>

\* a variant in which the caller does not test the value
AfterFindFolder_Unchecked(site, id) ==
    CASE site = "list_find_folder" -> "list_loop"
      [] site = "upload_find_folder" -> "upload"
      [] site = "create_find_folder" -> "create"
      [] site = "copy_find_folder" -> "copy_find_file"

\* where the caller of find_folder goes with the value it got
AfterFindFolder(site, id) ==
    IF ~Truthy(id) THEN "done"
    ELSE CASE site = "list_find_folder" -> "list_loop"
           [] site = "upload_find_folder" -> "upload"
           [] site = "create_find_folder" -> "create"
           [] site = "copy_find_folder" -> "copy_find_file"

\* find_folder, and the test of its result by the caller
FindFolder ==
    /\ pc \in { "list_find_folder", "upload_find_folder", "create_find_folder",
                "copy_find_folder" }
    /\ \E resp \in ListResponses(MaxFiles) \cup { HttpError } :
          /\ Execute(FindFolderRequest(parent_folder), resp)
          /\ IF Raises(resp)
             THEN /\ Raise
                  /\ UNCHANGED << parent_id, files >>
             ELSE /\ parent_id' = FirstId(resp)
                  /\ pc' = AfterFindFolder(pc, FirstId(resp))
                  /\ IF pc = "list_find_folder" /\ ~Truthy(FirstId(resp))
                     THEN \* find_files_in_folder returns None; main: if files: ... else:
                          /\ files' = NoResult
                          /\ out' = out \o NotFoundMessage("Folder", resp)
                                        \o << "No files found in folder" >>
                     ELSE /\ files' = files
                          /\ out' = out \o NotFoundMessage("Folder", resp)
    /\ children_files' = << >>
    /\ page_token' = None
    /\ UNCHANGED << option, parent_folder, new_name, file_id, pages >>

\* where the caller of find_file goes with the value it got
AfterFindFile(site, id) ==
    IF ~Truthy(id) THEN "done"
    ELSE CASE site = "download_find_file" -> "download"
           [] site = "delete_find_file" -> "delete"
           [] site = "copy_find_file" -> "copy"

\* find_file, and the test of its result by the caller
FindFile ==
    /\ pc \in { "download_find_file", "delete_find_file", "copy_find_file" }
    /\ \E resp \in ListResponses(MaxFiles) \cup { HttpError } :
          /\ Execute(FindFileRequest(file_name), resp)
          /\ IF Raises(resp)
             THEN /\ Raise
                  /\ UNCHANGED file_id
             ELSE /\ file_id' = FirstId(resp)
                  /\ pc' = AfterFindFile(pc, FirstId(resp))
                  /\ out' = out \o NotFoundMessage("File", resp)
    /\ UNCHANGED << option, parent_folder, new_name, parent_id, children_files,
                    page_token, files, pages >>

\* a variant that asks once more after a first response without a token
LoopEnds_OneMore(token, asked) == token = None /\ asked > 1

\* a variant that gives up after two requests
LoopEnds_Capped(token, asked) == token = None \/ asked >= 2

\* find_files_in_folder: "if page_token is None: break", evaluated after the
\* asked-th request of the loop (the code's test does not read the count)
LoopEnds(token, asked) == token = None

\* a variant that puts the new page in front
Extend_InFront(list, items) == items \o list

\* find_files_in_folder: children_files.extend(items)
Extend(list, items) == list \o items

\* a variant that goes back to the first token it ever saw
NextPageToken_Rewritten(results) ==
    IF "nextPageToken" \in DOMAIN results THEN "tok1" ELSE None

\* find_files_in_folder: the page_token the next request carries
NextPageToken(results) == Get(results, "nextPageToken", None)

\* main: what is printed for the value find_files_in_folder returned
PrintFiles(list) ==
    IF list # << >>
    THEN << "Files:" >> \o [i \in 1..Len(list) |-> << list[i].name, list[i].id >>]
    ELSE << "No files found in folder" >>

\* find_files_in_folder: one turn of the while loop, and the return after the break
ListPage ==
    /\ pc = "list_loop"
    /\ Len(PageRequests) < MaxPages
    /\ \E resp \in ListResponses(MaxFiles - Len(children_files)) \cup { HttpError } :
          /\ Execute(PageRequest(parent_id, page_token), resp)
          /\ pages' = Append(pages, resp)
          /\ IF Raises(resp)
             THEN /\ Raise
                  /\ children_files' = << >>
                  /\ page_token' = None
                  /\ UNCHANGED files
             ELSE LET list == Extend(children_files, Get(resp, "files", << >>))
                      token == NextPageToken(resp)
                  IN  IF LoopEnds(token, Len(PageRequests) + 1)
                      THEN /\ files' = ListResult(list)
                           /\ out' = out \o PrintFiles(list)
                           /\ pc' = "done"
                           /\ children_files' = << >>
                           /\ page_token' = None
                      ELSE /\ children_files' = list
                           /\ page_token' = token
                           /\ UNCHANGED << files, out, pc >>
    /\ UNCHANGED << option, parent_folder, new_name, parent_id, file_id >>

\* download_file: one next_chunk() of the download loop
Download ==
    /\ pc = "download"
    /\ Len(ChunkRequests) < MaxChunks
    /\ \E resp \in { [done |-> FALSE], [done |-> TRUE], HttpError } :
          /\ Execute(ChunkRequest(file_id), resp)
          /\ IF Raises(resp)
             THEN Raise
             ELSE /\ out' = Append(out, "Download %")
                  /\ pc' = IF resp = [done |-> TRUE] THEN "done" ELSE "download"
    /\ UNCHANGED << option, parent_folder, new_name, parent_id, file_id,
                    children_files, page_token, files, pages >>

\* the responses to a create or copy request
CreatedResponses == { [id |-> "9"], << >> }

\* print('File ID: %s' % file.get('id'))
PrintId(label, resp) == << label, Get(resp, "id", None) >>

\* a single request that ends main: its outcome is printed
LastRequest(req, responses, label) ==
    /\ \E resp \in responses \cup { HttpError } :
          /\ Execute(req, resp)
          /\ IF Raises(resp)
             THEN Raise
             ELSE /\ out' = Append(out, PrintId(label, resp))
                  /\ pc' = "done"
    /\ UNCHANGED << option, parent_folder, new_name, parent_id, file_id,
                    children_files, page_token, files, pages >>

\* upload_file
Upload ==
    /\ pc = "upload"
    /\ LastRequest(UploadRequest(folder, file_name, parent_id), CreatedResponses, "File ID")

\* create_folder
CreateFolder ==
    /\ pc = "create"
    /\ LastRequest(CreateFolderRequest(folder, parent_id), CreatedResponses, "Folder ID")

\* delete_file after its find_file
Delete ==
    /\ pc = "delete"
    /\ LastRequest(DeleteRequest(file_id), { << >> }, "File deleted")

\* copy_file after its find_file
Copy ==
    /\ pc = "copy"
    /\ LastRequest(CopyRequest(file_id, parent_id, new_name), CreatedResponses, "Folder ID")

Next ==
    \/ SelectOption
    \/ FindFolder
    \/ FindFile
    \/ ListPage
    \/ Download
    \/ Upload
    \/ CreateFolder
    \/ Delete
    \/ Copy

Spec == Init /\ [][Next]_vars

-----------------------------------------------------------------------------
(* Properties *)

\* the entries of a response, and whether it offers a further page
FilesOf(r) == Get(r, "files", << >>)
TokenAbsent(r) == Get(r, "nextPageToken", None) = None

RECURSIVE Concat(_)
Concat(ps) == IF ps = << >> THEN << >> ELSE FilesOf(Head(ps)) \o Concat(Tail(ps))

LastRequestSent == requests[Len(requests)]

\* C1: when the listing returns, its value is the concatenation P1 ++ ... ++ Pn of the
\* pages the service returned, in arrival order, where Pn is the first page without a
\* continuation token; while the loop runs, children_files is the concatenation so far.
C1_ListingIsConcatenation ==
    /\ files.kind = "list" =>
          /\ files.value = Concat(pages)
          /\ TokenAbsent(pages[Len(pages)])
          /\ \A k \in 1..(Len(pages) - 1) : ~TokenAbsent(pages[k])
    /\ pc = "list_loop" => children_files = Concat(pages)

\* a listing of three non-empty pages that differ has returned
C1_Witness ==
    /\ files.kind = "list"
    /\ Len(pages) = 3
    /\ FilesOf(pages[1]) = << [id |-> "1", name |-> "x"] >>
    /\ FilesOf(pages[2]) = << [id |-> "2", name |-> "x"] >>
    /\ FilesOf(pages[3]) = << [id |-> "1", name |-> "x"] >>

\* C2: a failed page request k ends the listing at once: it is the last request of the
\* run, nothing is returned to the caller, and main is in its error handler.
C2_FailedPageEndsListing ==
    \A k \in 1..Len(pages) :
        pages[k] = HttpError =>
            /\ k = Len(pages)
            /\ Len(PageRequests) = k
            /\ IsPageRequest(LastRequestSent)
            /\ files.kind = "unset"
            /\ children_files = << >>
            /\ pc = "error"

\* the second page fails after the first one delivered entries
C2_Witness ==
    /\ Len(pages) = 2
    /\ FilesOf(pages[1]) # << >>
    /\ pages[2] = HttpError

\* C3: one request per page: the loop has sent exactly as many page requests as the
\* service returned pages, none after a page without a token; a first page without a
\* token means exactly one request; the last page's entries end the returned value.
C3_OneRequestPerPage ==
    /\ Len(PageRequests) = Len(pages)
    /\ \A k \in 1..(Len(pages) - 1) : pages[k] # HttpError /\ ~TokenAbsent(pages[k])
    /\ (pages # << >> /\ pages[Len(pages)] # HttpError /\ TokenAbsent(pages[Len(pages)])) =>
          /\ files.kind = "list"
          /\ LET last == FilesOf(pages[Len(pages)])
                 n == Len(files.value)
             IN  /\ n >= Len(last)
                 /\ SubSeq(files.value, n - Len(last) + 1, n) = last
    /\ (pages # << >> /\ pages[1] # HttpError /\ TokenAbsent(pages[1])) =>
          /\ Len(PageRequests) = 1
          /\ files.kind = "list"
          /\ files.value = FilesOf(pages[1])

\* the first response has entries and no token: the listing is over after one request
C3_Witness ==
    /\ Len(pages) = 1
    /\ pages[1] = [files |-> << [id |-> "2", name |-> "x"], [id |-> "1", name |-> "x"] >>]
    /\ Len(PageRequests) = 1
    /\ files.kind = "list"

\* C6: a first page with no entries and no continuation token makes the listing return
\* the empty list, and main ends normally.
C6_EmptyListing ==
    (Len(pages) >= 1 /\ pages[1] # HttpError /\ FilesOf(pages[1]) = << >>
        /\ TokenAbsent(pages[1])) =>
        /\ files = [kind |-> "list", value |-> << >>]
        /\ pc = "done"

\* such a first page has been served
C6_Witness ==
    /\ Len(pages) = 1
    /\ pages[1] = [files |-> << >>]
    /\ pc = "done"

IsFolderLookup(r) == r = FindFolderRequest(parent_folder)
IsFileLookup(r) == r = FindFileRequest(file_name)
FolderSites == { "list_find_folder", "upload_find_folder", "create_find_folder",
                 "copy_find_folder" }
FileSites == { "download_find_file", "delete_find_file", "copy_find_file" }

\* the last request was a lookup and the service answered it
LookupAnswered ==
    /\ requests # << >>
    /\ IsLookupRequest(LastRequestSent)
    /\ response # HttpError

\* the value that lookup returned to its caller
Returned == IF IsFolderLookup(LastRequestSent) THEN parent_id ELSE file_id

\* C4: a lookup is over after one request, whatever token the response carries: each of
\* find_folder and find_file is asked at most once in a run and control has left the
\* lookup when its response is in; from a non-empty page the lookup returns the id of
\* the page's first entry.
C4_LookupFirstOfOnePage ==
    /\ Len(SelectSeq(requests, IsFolderLookup)) <= 1
    /\ Len(SelectSeq(requests, IsFileLookup)) <= 1
    /\ Len(LookupRequests) =
          Len(SelectSeq(requests, IsFolderLookup)) + Len(SelectSeq(requests, IsFileLookup))
    /\ LookupAnswered =>
          /\ IsFolderLookup(LastRequestSent) => pc \notin FolderSites
          /\ IsFileLookup(LastRequestSent) => pc \notin FileSites
          /\ FilesOf(response) # << >> => Returned = Head(FilesOf(response)).id

\* find_folder got two entries of the same name and a token for more, and returned
\* the first entry's id
C4_Witness ==
    /\ LookupAnswered
    /\ IsFolderLookup(LastRequestSent)
    /\ response = [ files |-> << [id |-> "2", name |-> "x"], [id |-> "1", name |-> "x"] >>,
                    nextPageToken |-> "tok1" ]
    /\ parent_id = "2"

\* the lookup's page had no entry
NotFound == LookupAnswered /\ FilesOf(response) = << >>

\* C5: a lookup whose page has no entry returns None, main ends normally (not in the
\* error handler), and no request follows.
C5_NotFoundIsNormal ==
    /\ [](NotFound => (Returned = None /\ pc = "done"))
    /\ [][NotFound => requests' = requests]_vars

\* find_file for a delete got no entry, though a token for more
C5_Witness ==
    /\ NotFound
    /\ option = 5
    /\ response = [nextPageToken |-> "tok2"]
    /\ file_id = None
    /\ pc = "done"

\* C7: every step of the listing loop sends one more page request, and the loop goes
\* on exactly when that request was answered with a token present; it ends only by
\* returning the list (token absent) or by the error; the number of requests already
\* sent plays no part.
C7_LoopEndsOnlyOnAbsentToken ==
    [][ pc = "list_loop" =>
          /\ Len(PageRequests') = Len(PageRequests) + 1
          /\ (pc' = "list_loop") <=> (response' # HttpError /\ ~TokenAbsent(response'))
          /\ (response' # HttpError /\ TokenAbsent(response')) =>
                (pc' = "done" /\ files'.kind = "list")
          /\ response' = HttpError => pc' = "error" ]_vars

\* the service has answered every request with the same token; the loop is still on
C7_Witness ==
    /\ pc = "list_loop"
    /\ Len(pages) = MaxPages
    /\ \A k \in 1..Len(pages) : pages[k] = [files |-> << >>, nextPageToken |-> "tok1"]
    /\ page_token = "tok1"

\* C8: the first page request carries no token, each later one carries the token of the
\* response just before it, and all carry the first request's query and page size.
C8_TokenChain ==
    \A i \in 1..Len(PageRequests) :
        LET r == PageRequests[i]
        IN  /\ r.pageToken = IF i = 1 THEN None
                             ELSE Get(pages[i - 1], "nextPageToken", None)
            /\ r.q = PageRequests[1].q
            /\ r.pageSize = PageRequests[1].pageSize

\* three page requests, the service having changed the token in between
C8_Witness ==
    /\ Len(PageRequests) = 3
    /\ PageRequests[1].pageToken = None
    /\ PageRequests[2].pageToken = "tok1"
    /\ PageRequests[3].pageToken = "tok2"

\* C9: once a request has failed, main is in its error handler, the failure is the
\* last thing printed, and no request is sent any more.
C9_FailureAborts ==
    /\ [](response = HttpError => (pc = "error" /\ out[Len(out)] = "An error occurred"))
    /\ [][response = HttpError => requests' = requests]_vars

\* the file lookup of a copy failed after the parent folder had been found
C9_Witness ==
    /\ response = HttpError
    /\ option = 6
    /\ Len(requests) = 2
    /\ IsFileLookup(LastRequestSent)
    /\ Truthy(parent_id)

\* C10: a request that depends on a lookup is sent only when the lookup returned an
\* identifier, right after it, and carries it: page requests the folder's id; a create
\* or copy for a named parent folder that folder's id as parent; delete, copy and
\* download the file's id.  A listing whose folder was not found returns None without
\* a page request.
C10_FollowUpNeedsIdentifier ==
    /\ \A i \in 1..Len(requests) :
          LET r == requests[i]
              parents == Get(Get(r, "body", << >>), "parents", << >>)
          IN  /\ IsPageRequest(r) =>
                    /\ Truthy(parent_id)
                    /\ r.q = << "\"", parent_id, "\" in parents" >>
                    /\ IsFolderLookup(requests[1])
              /\ (r.method \in { "files.create", "files.copy" } /\ Truthy(parent_folder)) =>
                    /\ Truthy(parent_id)
                    /\ parents = << parent_id >>
                    /\ IsFolderLookup(requests[1])
              /\ r.method \in { "files.delete", "files.copy", "files.get_media" } =>
                    /\ Truthy(file_id)
                    /\ r.fileId = file_id
                    /\ i > 1
                    /\ \E j \in 1..(i - 1) : IsFileLookup(requests[j])
    /\ (option = 1 /\ LookupAnswered /\ ~Truthy(parent_id)) =>
          /\ files = NoResult
          /\ PageRequests = << >>
          /\ pc = "done"

\* the parent folder named for an upload was not found: nothing was uploaded
C10_Witness ==
    /\ option = 3
    /\ parent_folder = "docs"
    /\ LookupAnswered
    /\ response = << >>
    /\ parent_id = None
    /\ Len(requests) = 1
    /\ pc = "done"

====
